---- MODULE Spec2Model ----
(***************************************************************************)
(* Model of the TfL client (lib/tfl-client: credential rotation, cooldown  *)
(* bookkeeping, failover in fetchApi) and of the /api/status read path     *)
(* (app/api/status/route.ts: snapshot -> refresh -> live fallback).        *)
(*                                                                         *)
(* Time is in milliseconds.  A network request is issued in one step and   *)
(* answered in a later one; everything the JavaScript runs between two     *)
(* awaits is one atomic step (single-threaded event loop).                 *)
(***************************************************************************)
EXTENDS Integers, Sequences, FiniteSets, TLC

VARIABLES
    apiKeys,             \* TFLApiClient.apiKeys: the credential pool
    roundRobinIndex,     \* TFLApiClient.roundRobinIndex: the rotation cursor
    rateLimitCooldowns,  \* TFLApiClient.rateLimitCooldowns: key -> cooldown-until (0 = no entry)
    calls,               \* the fetchApi invocations: locals, position, attempt log, outcome
    now,                 \* Date.now()
    ticks,               \* clock advances so far
    rows,                \* the service_status_snapshots table, in insertion order
    reqs,                \* the GET /api/status requests: locals, position, what they did
    cronRuns,            \* scheduled refreshes so far
    batch,               \* a getMultipleArrivals invocation: locals, position, outcome
    lineStatus,          \* a getLineStatus invocation: locals, position, outcome
    built,               \* a construction of the client: its configuration, whether it ran
    failure              \* a failed request: the response, the error thrown, its classification

fetchVars == <<apiKeys, roundRobinIndex, rateLimitCooldowns, calls>>
clockVars == <<now, ticks>>
statusVars == <<rows, reqs, cronRuns>>
auxVars == <<batch, lineStatus, built, failure>>

----------------------------------------------------------------------------
(* Bounds *)

MaxCalls == 2          \* fetchApi invocations in one run (they may overlap)
MaxTicks == 1          \* clock advances in one run
MaxReqs == 2           \* GET /api/status requests in one run (they may overlap)
MaxCronRuns == 1       \* scheduled refreshes in one run
TickMs == 5000         \* one clock advance, client runs
StatusTickMs == 30000  \* one clock advance, status runs
MaxIds == 3            \* length of a stopPointIds argument
MaxModes == 2          \* length of a modes argument
MaxKeys == 3           \* length of a configured key list

(* Program constants *)

DefaultCooldownMs == 60000
RateLimitStatus == 429

----------------------------------------------------------------------------
(* Values *)

NoKey == "undefined"                    \* the no-credential sentinel
Undef == -1                             \* an absent number (undefined)
NoMessage == ""                         \* no message in the response body
GenericMessage == "TFL API error"       \* `TFL API error: ${status}`

AllKeys == {"primary", "secondary", "k1", "k2", "k3"}
Bodies == {"bodyA"}
CallIds == 1..MaxCalls

Max(a, b) == IF a >= b THEN a ELSE b

\* Messages of the upstream with a rate-limit phrase, and without.
RateLimitMessages == {"Too Many Requests", "Rate limit exceeded"}
OtherMessages == {"Internal error"}

\* The Retry-After header of a response: absent, integer seconds, an HTTP
\* date (absolute ms), or text that is neither.
HeaderAbsent == [kind |-> "absent", v |-> 0]
HeaderGarbage == [kind |-> "garbage", v |-> 0]
HeaderSeconds(s) == [kind |-> "seconds", v |-> s]
HeaderDate(d) == [kind |-> "date", v |-> d]

RetryAfterHeaders(t) ==
    {HeaderAbsent, HeaderGarbage, HeaderSeconds(0), HeaderSeconds(5), HeaderDate(t + 5000)}

HttpResponse(st, m, h) == [kind |-> "http", status |-> st, message |-> m, retryAfter |-> h, body |-> ""]

\* What the upstream can answer to one request issued by requestWithKey.
OkResponses == {[kind |-> "ok", status |-> 200, message |-> NoMessage, retryAfter |-> HeaderAbsent, body |-> b] : b \in Bodies}

ErrorResponses(t) ==
    {HttpResponse(RateLimitStatus, NoMessage, h) : h \in RetryAfterHeaders(t)}
    \cup {HttpResponse(500, m, HeaderAbsent) : m \in OtherMessages \cup {"Rate limit exceeded"}}
    \cup {[kind |-> "network", status |-> Undef, message |-> "fetch failed", retryAfter |-> HeaderAbsent, body |-> ""],
          [kind |-> "badjson", status |-> 200, message |-> "Unexpected token", retryAfter |-> HeaderAbsent, body |-> ""]}

\* The messages of response bodies, and those of the errors of the runtime.
Messages ==
    RateLimitMessages \cup OtherMessages
    \cup {"You have EXCEEDED YOUR QUOTA", "Quota Exceeded", "App is over rate limit",
          "ratelimit reached", "Rate-limit hit", "quota", "Too many request"}

RuntimeMessages == {"fetch failed", "Unexpected token"}

\* The characters of the messages.
Text(m) ==
    CASE m = NoMessage -> <<>>
      [] m = "Too Many Requests" ->
        <<"T", "o", "o", " ", "M", "a", "n", "y", " ", "R", "e", "q", "u", "e", "s", "t", "s">>
      [] m = "Rate limit exceeded" ->
        <<"R", "a", "t", "e", " ", "l", "i", "m", "i", "t", " ", "e", "x", "c", "e", "e", "d", "e", "d">>
      [] m = "Internal error" ->
        <<"I", "n", "t", "e", "r", "n", "a", "l", " ", "e", "r", "r", "o", "r">>
      [] m = "fetch failed" ->
        <<"f", "e", "t", "c", "h", " ", "f", "a", "i", "l", "e", "d">>
      [] m = "Unexpected token" ->
        <<"U", "n", "e", "x", "p", "e", "c", "t", "e", "d", " ", "t", "o", "k", "e", "n">>
      [] m = "TFL API error" ->
        <<"T", "F", "L", " ", "A", "P", "I", " ", "e", "r", "r", "o", "r">>
      [] m = "You have EXCEEDED YOUR QUOTA" ->
        <<"Y", "o", "u", " ", "h", "a", "v", "e", " ", "E", "X", "C", "E", "E", "D", "E", "D", " ", "Y", "O", "U", "R", " ", "Q", "U", "O", "T", "A">>
      [] m = "Quota Exceeded" ->
        <<"Q", "u", "o", "t", "a", " ", "E", "x", "c", "e", "e", "d", "e", "d">>
      [] m = "App is over rate limit" ->
        <<"A", "p", "p", " ", "i", "s", " ", "o", "v", "e", "r", " ", "r", "a", "t", "e", " ", "l", "i", "m", "i", "t">>
      [] m = "ratelimit reached" ->
        <<"r", "a", "t", "e", "l", "i", "m", "i", "t", " ", "r", "e", "a", "c", "h", "e", "d">>
      [] m = "Rate-limit hit" ->
        <<"R", "a", "t", "e", "-", "l", "i", "m", "i", "t", " ", "h", "i", "t">>
      [] m = "quota" ->
        <<"q", "u", "o", "t", "a">>
      [] m = "Too many request" ->
        <<"T", "o", "o", " ", "m", "a", "n", "y", " ", "r", "e", "q", "u", "e", "s", "t">>

UpperCase == <<"A", "B", "C", "D", "E", "F", "G", "H", "I", "J", "K", "L", "M", "N", "O", "P", "Q", "R", "S", "T", "U", "V", "W", "X", "Y", "Z">>
LowerCase == <<"a", "b", "c", "d", "e", "f", "g", "h", "i", "j", "k", "l", "m", "n", "o", "p", "q", "r", "s", "t", "u", "v", "w", "x", "y", "z">>

\* message.toLowerCase()
messageToLowerCase(text) ==
    [i \in 1..Len(text) |->
        IF \E n \in 1..Len(UpperCase) : UpperCase[n] = text[i]
        THEN LowerCase[CHOOSE n \in 1..Len(UpperCase) : UpperCase[n] = text[i]]
        ELSE text[i]]

\* text.includes(phrase)
includes(text, phrase) ==
    \E i \in 1..(Len(text) - Len(phrase) + 1) :
        \A j \in 1..Len(phrase) : text[i + j - 1] = phrase[j]

\* The phrases looked for in a lower-cased message: 'rate limit',
\* 'too many requests', 'exceeded your quota', 'quota exceeded',
\* 'over rate limit'.
RateLimitPhrases ==
    {<<"r", "a", "t", "e", " ", "l", "i", "m", "i", "t">>,
     <<"t", "o", "o", " ", "m", "a", "n", "y", " ", "r", "e", "q", "u", "e", "s", "t", "s">>,
     <<"e", "x", "c", "e", "e", "d", "e", "d", " ", "y", "o", "u", "r", " ", "q", "u", "o", "t", "a">>,
     <<"q", "u", "o", "t", "a", " ", "e", "x", "c", "e", "e", "d", "e", "d">>,
     <<"o", "v", "e", "r", " ", "r", "a", "t", "e", " ", "l", "i", "m", "i", "t">>}

----------------------------------------------------------------------------
(* TFLApiClient.constructor *)

IndexOf(arr, k) == CHOOSE i \in 1..Len(arr) : arr[i] = k /\ \A j \in 1..(i - 1) : arr[j] # k

\* arr.filter((k, idx, arr) => arr.indexOf(k) === idx)
RECURSIVE DedupFrom(_, _)
DedupFrom(arr, i) ==
    IF i > Len(arr) THEN <<>>
    ELSE IF IndexOf(arr, arr[i]) = i THEN <<arr[i]>> \o DedupFrom(arr, i + 1)
    ELSE DedupFrom(arr, i + 1)

Dedup(arr) == DedupFrom(arr, 1)

\* [primary, secondary].filter(k => !!k && k.length > 0)
LegacyKeys(cfg) == SelectSeq(<<cfg.primaryApiKey, cfg.secondaryApiKey>>, LAMBDA k : k # "")

\* Mutant: the primary/secondary pair takes precedence over the list.
Construct_LegacyFirst(cfg) ==
    Dedup(IF Len(LegacyKeys(cfg)) > 0 THEN LegacyKeys(cfg) ELSE cfg.apiKeys)

Construct(cfg) ==
    Dedup(IF Len(cfg.apiKeys) > 0 THEN cfg.apiKeys ELSE LegacyKeys(cfg))

Config(list, primary, secondary) ==
    [apiKeys |-> list, primaryApiKey |-> primary, secondaryApiKey |-> secondary]

Configs ==
    {Config(<<>>, "", ""),
     Config(<<>>, "primary", ""),
     Config(<<>>, "primary", "secondary"),
     Config(<<"k1", "k2", "k1">>, "primary", "secondary")}

\* The configurations a client can be constructed from: a key list of up to
\* MaxKeys entries, which may repeat a key or hold an empty string, and a
\* primary and a secondary key, each possibly absent ("").
KeyLists == UNION {[1..n -> {"k1", "k2", ""}] : n \in 0..MaxKeys}
AnyConfigs ==
    {Config(list, primary, secondary) :
        list \in KeyLists, primary \in {"", "primary", "k1"}, secondary \in {"", "secondary", "k1", "primary"}}

NotBuilt == [cfg |-> Config(<<>>, "", ""), constructed |-> FALSE]

\* new TFLApiClient() under the configuration built.cfg
constructor ==
    /\ ~built.constructed
    /\ built' = [built EXCEPT !.constructed = TRUE]
    /\ apiKeys' = Construct(built.cfg)
    /\ roundRobinIndex' = 0
    /\ rateLimitCooldowns' = [k \in AllKeys |-> 0]
    /\ UNCHANGED <<calls, clockVars, statusVars, batch, lineStatus, failure>>

----------------------------------------------------------------------------
(* Rate-limit classification and error construction *)

\* Mutant: the message is searched as it is, without lower-casing.
MessageHasRateLimitPhrase_CaseSensitive(m) ==
    \E phrase \in RateLimitPhrases : includes(Text(m), phrase)

\* normalized.includes(...) || ... for each message
NormalizedIncludesPhrase ==
    [m \in Messages \cup RuntimeMessages \cup {NoMessage, GenericMessage} |->
        LET lower == messageToLowerCase(Text(m))
        IN  \E phrase \in RateLimitPhrases : includes(lower, phrase)]

MessageHasRateLimitPhrase(m) == NormalizedIncludesPhrase[m]

\* Mutant: the status is not consulted.
isRateLimitResponse_MessageOnly(status, message) ==
    IF message = NoMessage THEN FALSE
    ELSE MessageHasRateLimitPhrase(message)

isRateLimitResponse(status, message) ==
    IF status = RateLimitStatus THEN TRUE
    ELSE IF message = NoMessage THEN FALSE
    ELSE MessageHasRateLimitPhrase(message)

\* buildError: parse the Retry-After header at time t, classify.
ParseRetryAfter(h, t) ==
    IF h.kind = "seconds" THEN Max(0, h.v) * 1000
    ELSE IF h.kind = "date" THEN Max(0, h.v - t)
    ELSE Undef

buildError(resp, t) ==
    [kind |-> "http",
     status |-> resp.status,
     message |-> IF resp.message # NoMessage THEN resp.message ELSE GenericMessage,
     isRateLimit |-> isRateLimitResponse(resp.status, resp.message),
     retryAfterMs |-> ParseRetryAfter(resp.retryAfter, t),
     retryAfterRaw |-> resp.retryAfter]

\* The error requestWithKey throws for a response that is not a success:
\* buildError for an HTTP error, the runtime's error otherwise.
ThrownError(resp, t) ==
    IF resp.kind = "http" THEN buildError(resp, t)
    ELSE [kind |-> resp.kind, status |-> Undef, message |-> resp.message,
          isRateLimit |-> FALSE, retryAfterMs |-> Undef, retryAfterRaw |-> HeaderAbsent]

NoError == [kind |-> "none", status |-> Undef, message |-> NoMessage,
            isRateLimit |-> FALSE, retryAfterMs |-> Undef, retryAfterRaw |-> HeaderAbsent]

isRateLimitError(error) ==
    IF error.kind = "none" THEN FALSE
    ELSE IF error.isRateLimit THEN TRUE
    ELSE IF error.status = RateLimitStatus THEN TRUE
    ELSE MessageHasRateLimitPhrase(error.message)

\* A response that is not a success, on its way through requestWithKey and
\* the catch block of fetchApi.
NoFailure ==
    [pc |-> "idle", resp |-> HttpResponse(Undef, NoMessage, HeaderAbsent),
     error |-> NoError, limited |-> FALSE]

\* requestWithKey throws the error of the response.
requestWithKeyThrows ==
    /\ failure.pc = "response"
    /\ failure' = [failure EXCEPT !.pc = "thrown", !.error = ThrownError(failure.resp, now)]
    /\ UNCHANGED <<fetchVars, clockVars, statusVars, batch, lineStatus, built>>

\* The catch block of fetchApi classifies the error.
fetchApiCatch ==
    /\ failure.pc = "thrown"
    /\ failure' = [failure EXCEPT !.pc = "caught", !.limited = isRateLimitError(failure.error)]
    /\ UNCHANGED <<fetchVars, clockVars, statusVars, batch, lineStatus, built>>

\* Mutant: the last real candidate is taken for the last candidate.
shouldRetryWithNextKey_OffByOne(error, attemptIndex, totalKeys) ==
    attemptIndex < totalKeys - 2 /\ isRateLimitError(error)

\* Mutant: every error is retried.
shouldRetryWithNextKey_AnyError(error, attemptIndex, totalKeys) ==
    attemptIndex < totalKeys - 1

shouldRetryWithNextKey(error, attemptIndex, totalKeys) ==
    attemptIndex < totalKeys - 1 /\ isRateLimitError(error)

\* Mutant: a zero Retry-After duration is taken as it is.
CooldownMs_AcceptZero(error) ==
    IF error.retryAfterMs # Undef THEN error.retryAfterMs ELSE DefaultCooldownMs

\* cooldownMs in fetchApi's catch block
CooldownMs(error) ==
    IF error.retryAfterMs # Undef /\ error.retryAfterMs > 0 THEN error.retryAfterMs ELSE DefaultCooldownMs

----------------------------------------------------------------------------
(* Credential rotator *)

\* Mutant: a credential stays excluded at the instant its cooldown ends.
RECURSIVE UsableFrom_StrictExpiry(_, _, _, _, _)
UsableFrom_StrictExpiry(pool, cursor, cooldowns, t, i) ==
    IF i >= Len(pool) THEN <<>>
    ELSE LET idx == (cursor + i) % Len(pool)
             key == pool[idx + 1]
         IN  (IF cooldowns[key] < t \/ cooldowns[key] = 0 THEN <<key>> ELSE <<>>)
             \o UsableFrom_StrictExpiry(pool, cursor, cooldowns, t, i + 1)

\* Mutant: the walk starts at the head of the pool, not at the cursor.
RECURSIVE UsableFrom_NoCursor(_, _, _, _, _)
UsableFrom_NoCursor(pool, cursor, cooldowns, t, i) ==
    IF i >= Len(pool) THEN <<>>
    ELSE LET key == pool[i + 1]
         IN  (IF cooldowns[key] <= t THEN <<key>> ELSE <<>>)
             \o UsableFrom_NoCursor(pool, cursor, cooldowns, t, i + 1)

RECURSIVE UsableFrom(_, _, _, _, _)
UsableFrom(pool, cursor, cooldowns, t, i) ==
    IF i >= Len(pool) THEN <<>>
    ELSE LET idx == (cursor + i) % Len(pool)
             key == pool[idx + 1]
         IN  (IF cooldowns[key] <= t THEN <<key>> ELSE <<>>)
             \o UsableFrom(pool, cursor, cooldowns, t, i + 1)

UsableKeys(pool, cursor, cooldowns, t) ==
    IF Len(pool) > 0 THEN UsableFrom(pool, cursor, cooldowns, t, 0) ELSE <<>>

\* Mutant: the cooldown table is not consulted.
getApiKeysInPriorityOrder_NoCooldown(pool, cursor, cooldowns, t) ==
    LET usableKeys == UsableKeys(pool, cursor, [k \in AllKeys |-> 0], t)
    IN  IF Len(usableKeys) = 0 THEN <<NoKey>> ELSE usableKeys \o <<NoKey>>

\* Mutant: the sentinel is the first candidate.
getApiKeysInPriorityOrder_SentinelFirst(pool, cursor, cooldowns, t) ==
    LET usableKeys == UsableKeys(pool, cursor, cooldowns, t)
    IN  IF Len(usableKeys) = 0 THEN <<NoKey>> ELSE <<NoKey>> \o usableKeys

getApiKeysInPriorityOrder(pool, cursor, cooldowns, t) ==
    LET usableKeys == UsableKeys(pool, cursor, cooldowns, t)
    IN  IF Len(usableKeys) = 0 THEN <<NoKey>> ELSE usableKeys \o <<NoKey>>

----------------------------------------------------------------------------
(* fetchApi *)

\* apiKeys, index, lastError are fetchApi's locals (gone once it returns);
\* result and thrown are what it returned or threw.  attempts logs the
\* requests of the call; alone and cooling record what held when the call
\* was issued: no other call in flight, and the pool keys whose
\* cooldown-until was still in the future.
IdleCall ==
    [pc |-> "idle", apiKeys |-> <<>>, index |-> 0, attempts |-> <<>>,
     lastError |-> NoError, result |-> "", thrown |-> NoError,
     alone |-> FALSE, cooling |-> {}]

InFlight(c) == calls[c].pc = "inflight"
Started(c) == calls[c].pc # "idle"
Finished(c) == calls[c].pc \in {"returned", "thrown"}

Attempt(key) == [key |-> key, res |-> "pending"]

Range(seq) == {seq[i] : i \in 1..Len(seq)}

\* Entry of fetchApi up to the first await: the candidate list is computed
\* and the request for the first candidate is issued.
fetchApiStart(c) ==
    /\ calls[c].pc = "idle"
    /\ \A d \in CallIds : d < c => Started(d)
    /\ LET cands == getApiKeysInPriorityOrder(apiKeys, roundRobinIndex, rateLimitCooldowns, now)
           alone == \A d \in CallIds : ~InFlight(d)
       IN  calls' = [d \in CallIds |->
                IF d = c
                THEN [pc |-> "inflight", apiKeys |-> cands, index |-> 0,
                      attempts |-> <<Attempt(cands[1])>>,
                      lastError |-> NoError, result |-> "", thrown |-> NoError,
                      alone |-> alone,
                      cooling |-> {k \in Range(apiKeys) : rateLimitCooldowns[k] > now}]
                ELSE calls[d]]
    /\ UNCHANGED <<apiKeys, roundRobinIndex, rateLimitCooldowns, clockVars, statusVars, auxVars>>

Mark(log, res) == [log EXCEPT ![Len(log)] = [@ EXCEPT !.res = res]]

\* Mutant: the cursor is not advanced.
fetchApiSuccess_NoAdvance(c, resp) ==
    /\ InFlight(c)
    /\ resp.kind = "ok"
    /\ calls' = [calls EXCEPT ![c] =
            [@ EXCEPT !.pc = "returned",
                      !.attempts = Mark(@, "ok"),
                      !.lastError = NoError,
                      !.result = resp.body]]
    /\ UNCHANGED <<apiKeys, roundRobinIndex, rateLimitCooldowns, clockVars, statusVars, auxVars>>

\* Mutant: the cursor is advanced without wrap-around.
fetchApiSuccess_NoModulo(c, resp) ==
    /\ InFlight(c)
    /\ resp.kind = "ok"
    /\ LET call == calls[c]
           apiKey == call.apiKeys[call.index + 1]
       IN  /\ roundRobinIndex' =
                IF apiKey # NoKey
                THEN roundRobinIndex + 1
                ELSE roundRobinIndex
           /\ calls' = [calls EXCEPT ![c] =
                [call EXCEPT !.pc = "returned",
                             !.attempts = Mark(@, "ok"),
                             !.lastError = NoError,
                             !.result = resp.body]]
    /\ UNCHANGED <<apiKeys, rateLimitCooldowns, clockVars, statusVars, auxVars>>

\* Mutant: the cursor is advanced for the sentinel too.
fetchApiSuccess_AdvanceAlways(c, resp) ==
    /\ InFlight(c)
    /\ resp.kind = "ok"
    /\ LET call == calls[c]
           apiKey == call.apiKeys[call.index + 1]
       IN  /\ roundRobinIndex' =
                (roundRobinIndex + 1) % Max(Len(apiKeys), 1)
           /\ calls' = [calls EXCEPT ![c] =
                [call EXCEPT !.pc = "returned",
                             !.attempts = Mark(@, "ok"),
                             !.lastError = NoError,
                             !.result = resp.body]]
    /\ UNCHANGED <<apiKeys, rateLimitCooldowns, clockVars, statusVars, auxVars>>

\* Mutant: the cursor is set past the credential the call used, from the
\* position the call saw when it started.
fetchApiSuccess_StaleCursor(c, resp) ==
    /\ InFlight(c)
    /\ resp.kind = "ok"
    /\ LET call == calls[c]
           apiKey == call.apiKeys[call.index + 1]
       IN  /\ roundRobinIndex' =
                IF apiKey # NoKey
                THEN IndexOf(apiKeys, apiKey) % Max(Len(apiKeys), 1)
                ELSE roundRobinIndex
           /\ calls' = [calls EXCEPT ![c] =
                [call EXCEPT !.pc = "returned",
                             !.attempts = Mark(@, "ok"),
                             !.lastError = NoError,
                             !.result = resp.body]]
    /\ UNCHANGED <<apiKeys, rateLimitCooldowns, clockVars, statusVars, auxVars>>

\* The request of the current candidate succeeds: advance the cursor when a
\* real key was used, return the parsed body.
fetchApiSuccess(c, resp) ==
    /\ InFlight(c)
    /\ resp.kind = "ok"
    /\ LET call == calls[c]
           apiKey == call.apiKeys[call.index + 1]
       IN  /\ roundRobinIndex' =
                IF apiKey # NoKey
                THEN (roundRobinIndex + 1) % Max(Len(apiKeys), 1)
                ELSE roundRobinIndex
           /\ calls' = [calls EXCEPT ![c] =
                [call EXCEPT !.pc = "returned",
                             !.attempts = Mark(@, "ok"),
                             !.lastError = NoError,
                             !.result = resp.body]]
    /\ UNCHANGED <<apiKeys, rateLimitCooldowns, clockVars, statusVars, auxVars>>

\* Mutant: no cooldown is recorded when the next candidate is attempted.
fetchApiFailure_NoCooldownOnRetry(c, resp) ==
    /\ InFlight(c)
    /\ resp.kind # "ok"
    /\ LET call == calls[c]
           apiKey == call.apiKeys[call.index + 1]
           error == ThrownError(resp, now)
           limited == isRateLimitError(error)
           shouldRetry == shouldRetryWithNextKey(error, call.index, Len(call.apiKeys))
           log == Mark(call.attempts, "failed")
           next == call.index + 1
       IN  /\ rateLimitCooldowns' =
                IF apiKey # NoKey /\ limited /\ ~(shouldRetry /\ next < Len(call.apiKeys))
                THEN [rateLimitCooldowns EXCEPT ![apiKey] = now + CooldownMs(error)]
                ELSE rateLimitCooldowns
           /\ calls' = [calls EXCEPT ![c] =
                IF shouldRetry /\ next < Len(call.apiKeys)
                THEN [call EXCEPT !.index = next,
                                  !.lastError = error,
                                  !.attempts = Append(log, Attempt(call.apiKeys[next + 1]))]
                ELSE [call EXCEPT !.pc = "thrown",
                                  !.index = IF shouldRetry THEN next ELSE @,
                                  !.lastError = error,
                                  !.thrown = error,
                                  !.attempts = log]]
    /\ UNCHANGED <<apiKeys, roundRobinIndex, clockVars, statusVars, auxVars>>

\* Mutant: a cooldown is recorded on every failure of a real credential.
fetchApiFailure_CooldownAnyError(c, resp) ==
    /\ InFlight(c)
    /\ resp.kind # "ok"
    /\ LET call == calls[c]
           apiKey == call.apiKeys[call.index + 1]
           error == ThrownError(resp, now)
           limited == isRateLimitError(error)
           shouldRetry == shouldRetryWithNextKey(error, call.index, Len(call.apiKeys))
           log == Mark(call.attempts, "failed")
           next == call.index + 1
       IN  /\ rateLimitCooldowns' =
                IF apiKey # NoKey
                THEN [rateLimitCooldowns EXCEPT ![apiKey] = now + CooldownMs(error)]
                ELSE rateLimitCooldowns
           /\ calls' = [calls EXCEPT ![c] =
                IF shouldRetry /\ next < Len(call.apiKeys)
                THEN [call EXCEPT !.index = next,
                                  !.lastError = error,
                                  !.attempts = Append(log, Attempt(call.apiKeys[next + 1]))]
                ELSE [call EXCEPT !.pc = "thrown",
                                  !.index = IF shouldRetry THEN next ELSE @,
                                  !.lastError = error,
                                  !.thrown = error,
                                  !.attempts = log]]
    /\ UNCHANGED <<apiKeys, roundRobinIndex, clockVars, statusVars, auxVars>>

\* The request of the current candidate fails: the catch block, and the
\* next iteration of the loop up to its await when the attempt is retried.
fetchApiFailure(c, resp) ==
    /\ InFlight(c)
    /\ resp.kind # "ok"
    /\ LET call == calls[c]
           apiKey == call.apiKeys[call.index + 1]
           error == ThrownError(resp, now)
           limited == isRateLimitError(error)
           shouldRetry == shouldRetryWithNextKey(error, call.index, Len(call.apiKeys))
           log == Mark(call.attempts, "failed")
           next == call.index + 1
       IN  /\ rateLimitCooldowns' =
                IF apiKey # NoKey /\ limited
                THEN [rateLimitCooldowns EXCEPT ![apiKey] = now + CooldownMs(error)]
                ELSE rateLimitCooldowns
           /\ calls' = [calls EXCEPT ![c] =
                IF shouldRetry /\ next < Len(call.apiKeys)
                THEN [call EXCEPT !.index = next,
                                  !.lastError = error,
                                  !.attempts = Append(log, Attempt(call.apiKeys[next + 1]))]
                ELSE [call EXCEPT !.pc = "thrown",
                                  !.index = IF shouldRetry THEN next ELSE @,
                                  !.lastError = error,
                                  !.thrown = error,
                                  !.attempts = log]]
    /\ UNCHANGED <<apiKeys, roundRobinIndex, clockVars, statusVars, auxVars>>

\* Time passes.
Tick ==
    /\ ticks < MaxTicks
    /\ now' = now + TickMs
    /\ ticks' = ticks + 1
    /\ UNCHANGED <<fetchVars, statusVars, auxVars>>

----------------------------------------------------------------------------
(* The status snapshot store (lib/service-status-snapshots) *)

NoSnapshot == [payload |-> <<>>, source |-> "none", valid_at |-> Undef]

\* A line-status payload, told apart by who fetched it and when.
Payload(source, r, t) == <<source, r, t>>

Row(payload, source, t) == [payload |-> payload, source |-> source, valid_at |-> t]

\* getLatestStatusSnapshot: the most recent row (by valid_at, the later
\* insert among equals), null when the table is empty.
Latest(table) ==
    IF Len(table) = 0 THEN NoSnapshot
    ELSE LET i == CHOOSE i \in 1..Len(table) :
                    \A j \in 1..Len(table) :
                        \/ table[j].valid_at < table[i].valid_at
                        \/ (table[j].valid_at = table[i].valid_at /\ j <= i)
         IN  table[i]

\* isSnapshotFresh(snapshot, maxAgeMs), evaluated at time t
isSnapshotFresh(snapshot, maxAgeMs, t) ==
    snapshot # NoSnapshot /\ t - snapshot.valid_at <= maxAgeMs

\* refreshStatusSnapshot: fetch the line status with the autofetch keys and
\* store it as a new row.  It can store the row, return without a row
\* becoming visible, or throw.
RefreshOutcomes == {"stored", "returned", "throws"}

refreshStatusSnapshot(table, args, r, outcome, t) ==
    IF outcome = "stored"
    THEN Append(table, Row(Payload(args.source, r, t), args.source, t))
    ELSE table

----------------------------------------------------------------------------
(* GET /api/status: how allLineStatuses is obtained *)

\* Mutant: snapshots are fresh for one minute.
maxSnapshotAgeMs_OneMinute == 60 * 1000

maxSnapshotAgeMs == 2 * 60 * 1000

ReqIds == 1..MaxReqs

NoTest == [snap |-> NoSnapshot, at |-> Undef]
NoArgs == [source |-> "none", useAutofetchKeys |-> FALSE]

\* snapshot and allLineStatuses are the handler's locals; response is how
\* the read of allLineStatuses ended ("success": the handler goes on to
\* filter and paginate it, "error": its catch block answers 500); the other fields record what the request did: the two freshness
\* tests (the snapshot tested and when), the calls it made and how they
\* ended.
IdleReq ==
    [pc |-> "idle", snapshot |-> NoSnapshot, allLineStatuses |-> <<>>, response |-> "none",
     test1 |-> NoTest, test2 |-> NoTest,
     refreshCalls |-> 0, refreshArgs |-> NoArgs, refreshOutcome |-> "none",
     rereads |-> 0, liveFetches |-> 0, liveOutcome |-> "none",
     inserts |-> 0, insertRow |-> NoSnapshot, insertOutcome |-> "none"]

\* The handler up to its first await: the latest snapshot is requested.
GET_Start(r) ==
    /\ reqs[r].pc = "idle"
    /\ \A q \in ReqIds : q < r => reqs[q].pc # "idle"
    /\ reqs' = [reqs EXCEPT ![r] = [@ EXCEPT !.pc = "read1"]]
    /\ UNCHANGED <<rows, cronRuns, fetchVars, clockVars, auxVars>>

\* The second freshness test and what follows it: the snapshot's payload, or
\* the live getLineStatus request.
AfterRefresh(req, snapshot, t) ==
    IF isSnapshotFresh(snapshot, maxSnapshotAgeMs, t)
    THEN [req EXCEPT !.pc = "done", !.snapshot = snapshot,
                     !.test2 = [snap |-> snapshot, at |-> t],
                     !.allLineStatuses = snapshot.payload, !.response = "success"]
    ELSE [req EXCEPT !.pc = "live", !.snapshot = snapshot,
                     !.test2 = [snap |-> snapshot, at |-> t],
                     !.liveFetches = @ + 1]

\* The first read ends (a read that throws leaves snapshot null): a fresh
\* snapshot is used, otherwise the refresh is invoked.
GET_Read1(r, ok) ==
    /\ reqs[r].pc = "read1"
    /\ LET snapshot == IF ok THEN Latest(rows) ELSE NoSnapshot
       IN  reqs' = [reqs EXCEPT ![r] =
                IF isSnapshotFresh(snapshot, maxSnapshotAgeMs, now)
                THEN [@ EXCEPT !.pc = "done", !.snapshot = snapshot,
                               !.test1 = [snap |-> snapshot, at |-> now],
                               !.allLineStatuses = snapshot.payload, !.response = "success"]
                ELSE [@ EXCEPT !.pc = "refresh", !.snapshot = snapshot,
                               !.test1 = [snap |-> snapshot, at |-> now],
                               !.refreshCalls = @ + 1,
                               !.refreshArgs = [source |-> "manual-refresh", useAutofetchKeys |-> TRUE]]]
    /\ UNCHANGED <<rows, cronRuns, fetchVars, clockVars, auxVars>>

\* The refresh ends: the snapshot is read again, or, when the refresh threw,
\* the catch block runs and the snapshot of the first read is tested again.
GET_Refresh(r, outcome) ==
    /\ reqs[r].pc = "refresh"
    /\ rows' = refreshStatusSnapshot(rows, reqs[r].refreshArgs, r, outcome, now)
    /\ reqs' = [reqs EXCEPT ![r] =
            IF outcome = "throws"
            THEN AfterRefresh([@ EXCEPT !.refreshOutcome = outcome], @.snapshot, now)
            ELSE [@ EXCEPT !.pc = "read2", !.refreshOutcome = outcome, !.rereads = @ + 1]]
    /\ UNCHANGED <<cronRuns, fetchVars, clockVars, auxVars>>

\* Mutant: the re-read snapshot is not tested, the live fetch always follows.
GET_Read2_AlwaysLive(r, ok) ==
    /\ reqs[r].pc = "read2"
    /\ LET snapshot == IF ok THEN Latest(rows) ELSE reqs[r].snapshot
       IN  reqs' = [reqs EXCEPT ![r] =
                [@ EXCEPT !.pc = "live", !.snapshot = snapshot,
                          !.test2 = [snap |-> snapshot, at |-> now],
                          !.liveFetches = @ + 1]]
    /\ UNCHANGED <<rows, cronRuns, fetchVars, clockVars, auxVars>>

\* The re-read ends (a re-read that throws leaves snapshot as it was).
GET_Read2(r, ok) ==
    /\ reqs[r].pc = "read2"
    /\ LET snapshot == IF ok THEN Latest(rows) ELSE reqs[r].snapshot
       IN  reqs' = [reqs EXCEPT ![r] = AfterRefresh(@, snapshot, now)]
    /\ UNCHANGED <<rows, cronRuns, fetchVars, clockVars, auxVars>>

\* The live getLineStatus ends: its payload is kept and the insert of a
\* 'live' row is issued; when it throws, the handler's catch answers 500.
GET_Live(r, ok) ==
    /\ reqs[r].pc = "live"
    /\ reqs' = [reqs EXCEPT ![r] =
            IF ok
            THEN [@ EXCEPT !.pc = "insert", !.liveOutcome = "ok",
                           !.allLineStatuses = Payload("live", r, now),
                           !.inserts = @ + 1,
                           !.insertRow = Row(Payload("live", r, now), "live", now)]
            ELSE [@ EXCEPT !.pc = "done", !.liveOutcome = "throws", !.response = "error"]]
    /\ UNCHANGED <<rows, cronRuns, fetchVars, clockVars, auxVars>>

\* Mutant: a failed insert is not caught.
GET_Insert_Fatal(r, ok) ==
    /\ reqs[r].pc = "insert"
    /\ rows' = IF ok THEN Append(rows, reqs[r].insertRow) ELSE rows
    /\ reqs' = [reqs EXCEPT ![r] =
            [@ EXCEPT !.pc = "done",
                      !.insertOutcome = IF ok THEN "ok" ELSE "failed",
                      !.response = IF ok THEN "success" ELSE "error"]]
    /\ UNCHANGED <<cronRuns, fetchVars, clockVars, auxVars>>

\* Mutant: the insert replaces the latest row instead of adding one.
GET_Insert_Upsert(r, ok) ==
    /\ reqs[r].pc = "insert"
    /\ rows' = IF ~ok THEN rows
               ELSE IF Len(rows) = 0 THEN <<reqs[r].insertRow>>
               ELSE [rows EXCEPT ![Len(rows)] = reqs[r].insertRow]
    /\ reqs' = [reqs EXCEPT ![r] =
            [@ EXCEPT !.pc = "done",
                      !.insertOutcome = IF ok THEN "ok" ELSE "failed",
                      !.response = "success"]]
    /\ UNCHANGED <<cronRuns, fetchVars, clockVars, auxVars>>

\* The insert ends; a failure is logged only.
GET_Insert(r, ok) ==
    /\ reqs[r].pc = "insert"
    /\ rows' = IF ok THEN Append(rows, reqs[r].insertRow) ELSE rows
    /\ reqs' = [reqs EXCEPT ![r] =
            [@ EXCEPT !.pc = "done",
                      !.insertOutcome = IF ok THEN "ok" ELSE "failed",
                      !.response = "success"]]
    /\ UNCHANGED <<cronRuns, fetchVars, clockVars, auxVars>>

\* The scheduled refresh stores a snapshot.
CronRefresh ==
    /\ cronRuns < MaxCronRuns
    /\ cronRuns' = cronRuns + 1
    /\ rows' = refreshStatusSnapshot(rows, [source |-> "cron", useAutofetchKeys |-> TRUE], 0, "stored", now)
    /\ UNCHANGED <<reqs, fetchVars, clockVars, auxVars>>

StatusTick ==
    /\ ticks < MaxTicks
    /\ now' = now + StatusTickMs
    /\ ticks' = ticks + 1
    /\ UNCHANGED <<fetchVars, statusVars, auxVars>>

----------------------------------------------------------------------------
(* getMultipleArrivals *)

StopIds == {"A", "B", "C"}
BlankIds == {"", " "}

\* The stopPointIds arguments.
IdLists == UNION {[1..n -> StopIds \cup BlankIds] : n \in 0..MaxIds}

\* id.trim()
trim(id) == IF id \in BlankIds THEN "" ELSE id

\* Mutant: ids are filtered but not made unique.
RECURSIVE UniqueFrom_NoDedup(_, _, _)
UniqueFrom_NoDedup(ids, i, acc) ==
    IF i > Len(ids) THEN acc
    ELSE UniqueFrom_NoDedup(ids, i + 1,
            IF trim(ids[i]) = "" THEN acc ELSE Append(acc, ids[i]))

\* Array.from(new Set(ids.filter(non-blank))): first occurrences, in order.
RECURSIVE UniqueFrom(_, _, _)
UniqueFrom(ids, i, acc) ==
    IF i > Len(ids) THEN acc
    ELSE UniqueFrom(ids, i + 1,
            IF trim(ids[i]) = "" \/ (\E j \in 1..Len(acc) : acc[j] = ids[i]) THEN acc ELSE Append(acc, ids[i]))

\* What an arrivals fetch for a stop can resolve to.
Prediction(id, n) == [naptanId |-> id, n |-> n]
ArrivalLists(id) == {<<>>, <<Prediction(id, 1)>>, <<Prediction(id, 1), Prediction(id, 2)>>}

\* arrivalsByStop.flat()
RECURSIVE Flat(_)
Flat(lists) == IF Len(lists) = 0 THEN <<>> ELSE Head(lists) \o Flat(Tail(lists))

Pending == [state |-> "pending", value |-> <<>>]

\* uniqueIds and arrivalsByStop are the method's locals; fetches[i] is the
\* getArrivals call for uniqueIds[i].  thrown names the stop whose error the
\* method threw ("" when none).
IdleBatch ==
    [pc |-> "idle", stopPointIds |-> <<>>, uniqueIds |-> <<>>, fetches |-> <<>>,
     result |-> <<>>, thrown |-> ""]

\* The method up to its first await: nothing to fetch, one fetch whose
\* promise is returned as it is, or one fetch per id, all issued by map.
getMultipleArrivals(ids) ==
    /\ batch.pc = "idle"
    /\ LET uniqueIds == UniqueFrom(ids, 1, <<>>)
       IN  batch' =
             IF Len(uniqueIds) = 0
             THEN [batch EXCEPT !.pc = "returned", !.stopPointIds = ids]
             ELSE [batch EXCEPT !.pc = IF Len(uniqueIds) = 1 THEN "single" ELSE "all",
                                !.stopPointIds = ids,
                                !.uniqueIds = uniqueIds,
                                !.fetches = [i \in 1..Len(uniqueIds) |-> Pending]]
    /\ UNCHANGED <<fetchVars, clockVars, statusVars, lineStatus, built, failure>>

\* getArrivals(uniqueIds[i]) resolves.
getArrivalsResolves(i, value) ==
    /\ batch.pc \in {"single", "all"}
    /\ i \in 1..Len(batch.fetches)
    /\ batch.fetches[i].state = "pending"
    /\ batch' =
         IF batch.pc = "single"
         THEN [batch EXCEPT !.pc = "returned", !.result = value,
                            !.fetches[i] = [state |-> "ok", value |-> value]]
         ELSE [batch EXCEPT !.fetches[i] = [state |-> "ok", value |-> value]]
    /\ UNCHANGED <<fetchVars, clockVars, statusVars, lineStatus, built, failure>>

\* getArrivals(uniqueIds[i]) rejects: caught and replaced by [] under
\* Promise.all, passed on to the caller on the single-id path.
getArrivalsRejects(i) ==
    /\ batch.pc \in {"single", "all"}
    /\ i \in 1..Len(batch.fetches)
    /\ batch.fetches[i].state = "pending"
    /\ batch' =
         IF batch.pc = "single"
         THEN [batch EXCEPT !.pc = "thrown", !.thrown = batch.uniqueIds[i],
                            !.fetches[i] = [state |-> "failed", value |-> <<>>]]
         ELSE [batch EXCEPT !.fetches[i] = [state |-> "failed", value |-> <<>>]]
    /\ UNCHANGED <<fetchVars, clockVars, statusVars, lineStatus, built, failure>>

\* Promise.all has every element: the method returns the flattened lists.
getMultipleArrivalsReturn ==
    /\ batch.pc = "all"
    /\ \A i \in 1..Len(batch.fetches) : batch.fetches[i].state # "pending"
    /\ batch' = [batch EXCEPT !.pc = "returned",
                              !.result = Flat([i \in 1..Len(batch.fetches) |-> batch.fetches[i].value])]
    /\ UNCHANGED <<fetchVars, clockVars, statusVars, lineStatus, built, failure>>

----------------------------------------------------------------------------
(* getLineStatus *)

DEFAULT_STATUS_MODES == <<"tube", "bus", "dlr", "overground", "tram", "river-bus", "cable-car">>

\* The mode names a caller passes.
ModeNames == {"tube", "River-Bus", "cable-car", "national rail"}

\* mode.toLowerCase() / mode.trim().toLowerCase()
toLowerCase(mode) == IF mode = "River-Bus" THEN "river-bus" ELSE mode

Hyphenated == {"river-bus", "cable-car"}
Spaced == {"national rail"}

\* normalized.replace(/-/g, '') and normalized.replace(/\s+/g, '')
StripHyphens(mode) ==
    IF mode = "river-bus" THEN "riverbus"
    ELSE IF mode = "cable-car" THEN "cablecar"
    ELSE mode

StripSpaces(mode) == IF mode = "national rail" THEN "nationalrail" ELSE mode

\* Set.add in insertion order
SetAdd(list, v) == IF \E j \in 1..Len(list) : list[j] = v THEN list ELSE Append(list, v)

buildModeVariants(mode) ==
    LET normalized == toLowerCase(mode)
        v1 == <<normalized>>
        v2 == IF normalized \in Hyphenated THEN SetAdd(v1, StripHyphens(normalized)) ELSE v1
        v3 == IF normalized \in Spaced THEN SetAdd(v2, StripSpaces(normalized)) ELSE v2
        v4 == IF normalized = "river-bus" THEN SetAdd(v3, "riverbus") ELSE v3
        v5 == IF normalized = "cable-car" THEN SetAdd(v4, "cablecar") ELSE v4
    IN  v5

\* The modes arguments: absent, or a list of mode names.
ModeLists == UNION {[1..n -> ModeNames] : n \in 0..MaxModes}

\* What a status request can resolve to: the lines of the modes asked for,
\* possibly none.
Line(mode) == [modeName |-> mode]
LineLists(modes) == {<<>>, [i \in 1..Len(modes) |-> Line(modes[i])]}

\* The errors of a status request, told apart by the request that raised
\* them and by whether the message has 'string did not match the expected
\* pattern'.
StatusError(from, pattern) == [from |-> from, pattern |-> pattern]
NoStatusError == [from |-> "none", pattern |-> FALSE]

\* requestedModes, aggregated, failedModes and the loop positions are the
\* method's locals; error is the bulk request's error; succeededModes records
\* which modes had a variant succeed, requests the variant requests issued.
IdleLineStatus ==
    [pc |-> "idle", requestedModes |-> <<>>, mode |-> 0, variant |-> 0,
     requests |-> <<>>, aggregated |-> <<>>, failedModes |-> <<>>, succeededModes |-> <<>>,
     error |-> NoStatusError, result |-> <<>>, thrown |-> NoStatusError]

\* The method up to its first await: the bulk request is issued.
getLineStatus(modes) ==
    /\ lineStatus.pc = "idle"
    /\ lineStatus' = [lineStatus EXCEPT
            !.pc = "bulk",
            !.requestedModes =
                LET chosen == IF Len(modes) > 0 THEN modes ELSE DEFAULT_STATUS_MODES
                IN  [i \in 1..Len(chosen) |-> toLowerCase(chosen[i])]]
    /\ UNCHANGED <<fetchVars, clockVars, statusVars, batch, built, failure>>

\* The bulk request resolves: its lines are returned.
getLineStatusBulkResolves(data) ==
    /\ lineStatus.pc = "bulk"
    /\ lineStatus' = [lineStatus EXCEPT !.pc = "returned", !.result = data]
    /\ UNCHANGED <<fetchVars, clockVars, statusVars, batch, built, failure>>

\* A mode is done: the first variant of the next mode is requested, or, after
\* the last mode, the aggregate is returned when it has lines and the bulk
\* error is thrown when it has none.
AfterMode(ls) ==
    IF ls.mode < Len(ls.requestedModes)
    THEN [ls EXCEPT !.mode = @ + 1, !.variant = 1,
                    !.requests = Append(@, buildModeVariants(ls.requestedModes[ls.mode + 1])[1])]
    ELSE IF Len(ls.aggregated) > 0
         THEN [ls EXCEPT !.pc = "returned", !.result = ls.aggregated]
         ELSE [ls EXCEPT !.pc = "thrown", !.thrown = ls.error]

\* The bulk request rejects: thrown on, or, for the pattern error, the
\* per-mode loop starts with the first variant of the first mode.
getLineStatusBulkRejects(pattern) ==
    /\ lineStatus.pc = "bulk"
    /\ lineStatus' =
         IF ~pattern
         THEN [lineStatus EXCEPT !.pc = "thrown", !.error = StatusError("bulk", pattern),
                                 !.thrown = StatusError("bulk", pattern)]
         ELSE [lineStatus EXCEPT !.pc = "variant", !.error = StatusError("bulk", pattern),
                                 !.mode = 1, !.variant = 1,
                                 !.requests = <<buildModeVariants(lineStatus.requestedModes[1])[1]>>]
    /\ UNCHANGED <<fetchVars, clockVars, statusVars, batch, built, failure>>

CurrentMode(ls) == ls.requestedModes[ls.mode]
CurrentVariant(ls) == buildModeVariants(CurrentMode(ls))[ls.variant]

\* A variant request resolves: its lines are pushed, the mode succeeded.
getLineStatusVariantResolves(data) ==
    /\ lineStatus.pc = "variant"
    /\ lineStatus' = AfterMode([lineStatus EXCEPT
            !.aggregated = @ \o data,
            !.succeededModes = Append(@, CurrentMode(lineStatus))])
    /\ UNCHANGED <<fetchVars, clockVars, statusVars, batch, built, failure>>

\* A variant request rejects: the next variant is tried after a pattern
\* error; otherwise, or when no variant is left, the mode has failed.
getLineStatusVariantRejects(pattern) ==
    /\ lineStatus.pc = "variant"
    /\ lineStatus' =
         IF pattern /\ lineStatus.variant < Len(buildModeVariants(CurrentMode(lineStatus)))
         THEN [lineStatus EXCEPT
                    !.variant = @ + 1,
                    !.requests = Append(@, buildModeVariants(CurrentMode(lineStatus))[lineStatus.variant + 1])]
         ELSE AfterMode([lineStatus EXCEPT !.failedModes = Append(@, CurrentMode(lineStatus))])
    /\ UNCHANGED <<fetchVars, clockVars, statusVars, batch, built, failure>>

----------------------------------------------------------------------------
(* Specifications *)

vars == <<apiKeys, roundRobinIndex, rateLimitCooldowns, calls, now, ticks, rows, reqs, cronRuns, batch, lineStatus, built, failure>>

NoBatches ==
    /\ batch = IdleBatch
    /\ lineStatus = IdleLineStatus
    /\ built = NotBuilt
    /\ failure = NoFailure

NoRequests ==
    /\ rows = <<>>
    /\ reqs = [r \in ReqIds |-> IdleReq]
    /\ cronRuns = 0

\* A client just constructed, no call made yet.
Init ==
    /\ \E cfg \in Configs : apiKeys = Construct(cfg)
    /\ roundRobinIndex = 0
    /\ rateLimitCooldowns = [k \in AllKeys |-> 0]
    /\ calls = [c \in CallIds |-> IdleCall]
    /\ now = 0
    /\ ticks = 0
    /\ NoRequests
    /\ NoBatches

Next ==
    \/ \E c \in CallIds : fetchApiStart(c)
    \/ \E c \in CallIds : \E resp \in OkResponses : fetchApiSuccess(c, resp)
    \/ \E c \in CallIds : \E resp \in ErrorResponses(now) : fetchApiFailure(c, resp)
    \/ Tick

Spec == Init /\ [][Next]_vars

\* The request a call has in flight is answered.
requestReturns(c) ==
    \/ \E resp \in OkResponses : fetchApiSuccess(c, resp)
    \/ \E resp \in ErrorResponses(now) : fetchApiFailure(c, resp)

\* The same program when every network request eventually returns.
SpecLive == Init /\ [][Next]_vars /\ \A c \in CallIds : WF_vars(requestReturns(c))

\* The latest snapshot, if any, was stored by a scheduled refresh some time
\* ago; no request yet.
SnapshotAges == {0, 90000, 120000, 150000}

InitStatus ==
    /\ apiKeys = <<>>
    /\ roundRobinIndex = 0
    /\ rateLimitCooldowns = [k \in AllKeys |-> 0]
    /\ calls = [c \in CallIds |-> IdleCall]
    /\ ticks = 0
    /\ cronRuns = 0
    /\ reqs = [r \in ReqIds |-> IdleReq]
    /\ NoBatches
    /\ \E age \in SnapshotAges :
          /\ now = age
          /\ rows \in {<<>>, <<Row(Payload("cron", 0, 0), "cron", 0)>>}

NextStatus ==
    \/ \E r \in ReqIds : GET_Start(r)
    \/ \E r \in ReqIds : \E ok \in BOOLEAN : GET_Read1(r, ok)
    \/ \E r \in ReqIds : \E outcome \in RefreshOutcomes : GET_Refresh(r, outcome)
    \/ \E r \in ReqIds : \E ok \in BOOLEAN : GET_Read2(r, ok)
    \/ \E r \in ReqIds : \E ok \in BOOLEAN : GET_Live(r, ok)
    \/ \E r \in ReqIds : \E ok \in BOOLEAN : GET_Insert(r, ok)
    \/ CronRefresh
    \/ StatusTick

SpecStatus == InitStatus /\ [][NextStatus]_vars

\* A client that serves no other call; one getMultipleArrivals invocation.
NoClientCalls ==
    /\ apiKeys = <<>>
    /\ roundRobinIndex = 0
    /\ rateLimitCooldowns = [k \in AllKeys |-> 0]
    /\ calls = [c \in CallIds |-> IdleCall]
    /\ now = 0
    /\ ticks = 0

InitArrivals ==
    /\ NoClientCalls
    /\ NoRequests
    /\ NoBatches

NextArrivals ==
    \/ \E ids \in IdLists : getMultipleArrivals(ids)
    \/ \E i \in 1..MaxIds : \E value \in ArrivalLists(IF i <= Len(batch.uniqueIds) THEN batch.uniqueIds[i] ELSE "A") :
            getArrivalsResolves(i, value)
    \/ \E i \in 1..MaxIds : getArrivalsRejects(i)
    \/ getMultipleArrivalsReturn

SpecArrivals == InitArrivals /\ [][NextArrivals]_vars

\* One construction, under any configuration.
InitConstruct ==
    /\ NoClientCalls
    /\ NoRequests
    /\ batch = IdleBatch
    /\ lineStatus = IdleLineStatus
    /\ failure = NoFailure
    /\ \E cfg \in AnyConfigs : built = [cfg |-> cfg, constructed |-> FALSE]

NextConstruct == constructor

SpecConstruct == InitConstruct /\ [][NextConstruct]_vars

\* One failed request: any status with any message, or an error of the
\* runtime.
Statuses == {400, RateLimitStatus, 500, 503}

FailedResponses ==
    {HttpResponse(st, m, HeaderAbsent) : st \in Statuses, m \in Messages \cup {NoMessage}}
    \cup {[kind |-> "network", status |-> Undef, message |-> m, retryAfter |-> HeaderAbsent, body |-> ""] :
            m \in {"fetch failed", "Too Many Requests"}}
    \cup {[kind |-> "badjson", status |-> 200, message |-> "Unexpected token", retryAfter |-> HeaderAbsent, body |-> ""]}

InitClassify ==
    /\ NoClientCalls
    /\ NoRequests
    /\ batch = IdleBatch
    /\ lineStatus = IdleLineStatus
    /\ built = NotBuilt
    /\ \E resp \in FailedResponses : failure = [NoFailure EXCEPT !.pc = "response", !.resp = resp]

NextClassify ==
    \/ requestWithKeyThrows
    \/ fetchApiCatch

SpecClassify == InitClassify /\ [][NextClassify]_vars

\* A client at any point of its life: any pool of up to three credentials,
\* any cursor position, any cooldown table, seen at the issue of its next
\* calls.
CooldownTimes == {0, TickMs, DefaultCooldownMs}

InitRotator ==
    /\ apiKeys \in {<<>>, <<"k1">>, <<"k1", "k2">>, <<"k1", "k2", "k3">>}
    /\ roundRobinIndex \in 0..Max(Len(apiKeys) - 1, 0)
    /\ rateLimitCooldowns \in {f \in [AllKeys -> CooldownTimes] :
                                 \A k \in AllKeys : k \notin Range(apiKeys) => f[k] = 0}
    /\ calls = [c \in CallIds |-> IdleCall]
    /\ now = 0
    /\ ticks = 0
    /\ NoRequests
    /\ NoBatches

NextRotator ==
    \/ \E c \in CallIds : fetchApiStart(c)
    \/ Tick

SpecRotator == InitRotator /\ [][NextRotator]_vars

\* One getLineStatus invocation.
NextLineStatus ==
    \/ \E modes \in ModeLists : getLineStatus(modes)
    \/ \E data \in LineLists(lineStatus.requestedModes) : getLineStatusBulkResolves(data)
    \/ \E pattern \in BOOLEAN : getLineStatusBulkRejects(pattern)
    \/ \E data \in LineLists(<<IF lineStatus.pc = "variant" THEN CurrentVariant(lineStatus) ELSE "tube">>) :
            getLineStatusVariantResolves(data)
    \/ \E pattern \in BOOLEAN : getLineStatusVariantRejects(pattern)

SpecLineStatus == InitArrivals /\ [][NextLineStatus]_vars

----------------------------------------------------------------------------
(* Vocabulary of the properties *)

\* The rate-limit classification as the specification states it: HTTP status
\* 429, or a message containing one of the rate-limit phrases.
RateLimitBySpec(error) ==
    error.kind # "none" /\ (error.status = 429 \/ error.message \in RateLimitMessages)

\* In this step the request call c has in flight is answered with a failure
\* (its error is calls'[c].lastError), or with a success.
AttemptFails(c) ==
    InFlight(c) /\ calls'[c].attempts[calls[c].index + 1].res = "failed"

AttemptSucceeds(c) ==
    InFlight(c) /\ calls'[c].attempts[calls[c].index + 1].res = "ok"

CurrentKey(c) == calls[c].apiKeys[calls[c].index + 1]

LastAttempt(c) == calls[c].attempts[Len(calls[c].attempts)]

\* The duration a Retry-After header states at time t (a date that has
\* passed states none).
HeaderDurationMs(h, t) ==
    IF h.kind = "seconds" THEN h.v * 1000 ELSE Max(0, h.v - t)

----------------------------------------------------------------------------
(* C1 *)

\* C1: when an attempt of fetchApi fails with a rate-limit error and its
\* candidate was not the last of the call's candidate list, the request for
\* the next candidate in list order is issued; when an attempt that follows
\* such a failure succeeds, the call returns the parsed body and throws
\* nothing.
C1_RetryNextCandidate ==
    [][\A c \in CallIds :
        /\ ( /\ AttemptFails(c)
             /\ RateLimitBySpec(calls'[c].lastError)
             /\ calls[c].index + 1 < Len(calls[c].apiKeys) )
           => /\ calls'[c].pc = "inflight"
              /\ calls'[c].index = calls[c].index + 1
              /\ Len(calls'[c].attempts) = calls[c].index + 2
              /\ calls'[c].attempts[calls[c].index + 2] = Attempt(calls[c].apiKeys[calls[c].index + 2])
        /\ (AttemptSucceeds(c) /\ calls[c].index >= 1)
           => /\ calls'[c].pc = "returned"
              /\ calls'[c].result \in Bodies
              /\ calls'[c].thrown = NoError
      ]_vars

\* A call whose first attempt was rate limited and whose second succeeded.
C1_Witness ==
    \E c \in CallIds :
        /\ calls[c].pc = "returned"
        /\ Len(calls[c].attempts) = 2
        /\ calls[c].attempts[1].res = "failed"
        /\ calls[c].attempts[2].res = "ok"
        /\ calls[c].result \in Bodies

----------------------------------------------------------------------------
(* C2 *)

\* C2: when an attempt of fetchApi fails with an error that is not a
\* rate-limit error, no further candidate is attempted and that error is
\* thrown to the caller; a first attempt failing so leaves the call with
\* exactly one attempt, whatever candidates remain.
C2_NoRetryOnOtherErrors ==
    [][\A c \in CallIds :
        (AttemptFails(c) /\ ~RateLimitBySpec(calls'[c].lastError))
        => /\ calls'[c].pc = "thrown"
           /\ calls'[c].thrown = calls'[c].lastError
           /\ calls'[c].thrown.kind # "none"
           /\ Len(calls'[c].attempts) = calls[c].index + 1
           /\ calls'[c].result = ""
      ]_vars

\* A call with candidates left over that threw after a single attempt which
\* failed with an error that is no rate limit.
C2_Witness ==
    \E c \in CallIds :
        /\ calls[c].pc = "thrown"
        /\ Len(calls[c].attempts) = 1
        /\ Len(calls[c].apiKeys) >= 2
        /\ ~RateLimitBySpec(calls[c].thrown)
        /\ calls[c].thrown.kind \in {"http", "network", "badjson"}

----------------------------------------------------------------------------
(* C3 *)

\* C3 as stated: a 429 on a real key sets the key's cooldown-until to now
\* plus the duration of the Retry-After header for every header that parses,
\* a zero duration included, and to now + 60000 when there is no header.
C3_CooldownFromHeader ==
    [][\A c \in CallIds :
        LET h == calls'[c].lastError.retryAfterRaw
        IN  ( /\ AttemptFails(c)
              /\ CurrentKey(c) # NoKey
              /\ calls'[c].lastError.status = 429
              /\ h.kind \in {"absent", "seconds", "date"} )
            => rateLimitCooldowns'[CurrentKey(c)] =
                 IF h.kind = "absent" THEN now + 60000 ELSE now + HeaderDurationMs(h, now)
      ]_vars

\* C3 (amended): a rate-limit failure on a real key sets the key's
\* cooldown-until to now plus the duration of the Retry-After header when
\* the header parses to a positive duration, and to now + 60000 otherwise
\* (no header, a header that does not parse, or a zero duration).
C3_CooldownPositiveOrDefault ==
    [][\A c \in CallIds :
        LET h == calls'[c].lastError.retryAfterRaw
        IN  ( /\ AttemptFails(c)
              /\ CurrentKey(c) # NoKey
              /\ RateLimitBySpec(calls'[c].lastError) )
            => rateLimitCooldowns'[CurrentKey(c)] =
                 IF h.kind \in {"seconds", "date"} /\ HeaderDurationMs(h, now) > 0
                 THEN now + HeaderDurationMs(h, now)
                 ELSE now + 60000
      ]_vars

\* A 429 with Retry-After: 0 on a real key has just put the key in cooldown
\* for 60000 ms.
C3_Witness ==
    \E c \in CallIds :
        /\ Len(calls[c].attempts) >= 1
        /\ calls[c].lastError.status = 429
        /\ calls[c].lastError.retryAfterRaw = HeaderSeconds(0)
        /\ \E i \in 1..Len(calls[c].attempts) :
              /\ calls[c].attempts[i].res = "failed"
              /\ calls[c].attempts[i].key # NoKey
              /\ (i = Len(calls[c].attempts) \/ calls[c].attempts[i + 1].res = "pending")
              /\ rateLimitCooldowns[calls[c].attempts[i].key] = now + 60000

----------------------------------------------------------------------------
(* C4 *)

\* C4: a pool credential whose cooldown-until is later than the time a call
\* is issued is not in the candidate list computed for that call.
C4_CoolingKeysExcluded ==
    \A c \in CallIds :
        Started(c) => \A k \in calls[c].cooling : k \notin Range(calls[c].apiKeys)

\* A call issued while a pool credential was cooling down.
C4_Witness ==
    \E c \in CallIds :
        /\ Started(c)
        /\ calls[c].cooling # {}
        /\ Len(calls[c].apiKeys) = 2

----------------------------------------------------------------------------
(* C5 *)

\* No attempt of call d put a credential in cooldown (an attempt that failed
\* and was followed by another was rate limited).
NoCooldownRecorded(d) ==
    \A j \in 1..Len(calls[d].attempts) :
        calls[d].attempts[j].res = "failed" => calls[d].attempts[j].key = NoKey

----------------------------------------------------------------------------
(* C6 *)

AllCandidatesFailed(c) ==
    /\ Started(c)
    /\ Len(calls[c].attempts) = Len(calls[c].apiKeys)
    /\ \A j \in 1..Len(calls[c].attempts) : calls[c].attempts[j].res = "failed"

----------------------------------------------------------------------------
(* C7 *)

\* C7: with the pool [primary, secondary], every request attempts the
\* primary key first (unless it is cooling down), and the secondary key is
\* attempted only when the primary key is rate limited (cooling down when
\* the request is issued, or failed earlier in the same request).
C7_PrimaryFirst ==
    apiKeys = <<"primary", "secondary">> =>
        \A c \in CallIds :
            Started(c) =>
                \A j \in 1..Len(calls[c].attempts) :
                    calls[c].attempts[j].key = "secondary" =>
                        \/ "primary" \in calls[c].cooling
                        \/ \E i \in 1..(j - 1) :
                              /\ calls[c].attempts[i].key = "primary"
                              /\ calls[c].attempts[i].res = "failed"

----------------------------------------------------------------------------
(* The status read path *)

\* Freshness as the specification defines it: a snapshot exists and is at
\* most two minutes old.
FreshBySpec(test) ==
    test.snap # NoSnapshot /\ test.at - test.snap.valid_at <= 120000

Tested(test) == test.at # Undef

\* C8: when the snapshot of the first read is at most two minutes old, the
\* handler answers with that snapshot's payload, and it invokes neither the
\* refresh nor the live line-status fetch (and so issues no re-read and no
\* insert).  When that snapshot is older, or there is none, the refresh is
\* invoked.
C8_FreshSnapshotServed ==
    \A r \in ReqIds :
        /\ (Tested(reqs[r].test1) /\ FreshBySpec(reqs[r].test1)) =>
              /\ reqs[r].pc = "done"
              /\ reqs[r].response = "success"
              /\ reqs[r].allLineStatuses = reqs[r].test1.snap.payload
              /\ reqs[r].refreshCalls = 0
              /\ reqs[r].rereads = 0
              /\ reqs[r].liveFetches = 0
              /\ reqs[r].inserts = 0
        /\ (Tested(reqs[r].test1) /\ ~FreshBySpec(reqs[r].test1)) =>
              reqs[r].refreshCalls = 1

\* A request answered from a snapshot 90 seconds old.
C8_Witness ==
    \E r \in ReqIds :
        /\ reqs[r].pc = "done"
        /\ reqs[r].test1.snap # NoSnapshot
        /\ reqs[r].test1.at - reqs[r].test1.snap.valid_at = 90000
        /\ reqs[r].response = "success"
        /\ reqs[r].allLineStatuses = reqs[r].test1.snap.payload
        /\ reqs[r].refreshCalls = 0

C10_LiveFallback ==
    \A r \in ReqIds :
        /\ reqs[r].liveFetches <= 1
        /\ reqs[r].liveFetches = 1 =>
              /\ reqs[r].refreshCalls = 1
              /\ \/ reqs[r].refreshOutcome = "throws"
                 \/ ~FreshBySpec(reqs[r].test2)
        /\ (Tested(reqs[r].test2) /\ ~FreshBySpec(reqs[r].test2)) =>
              reqs[r].liveFetches = 1
        /\ reqs[r].liveOutcome = "ok" =>
              /\ reqs[r].inserts = 1
              /\ reqs[r].insertRow.payload = reqs[r].allLineStatuses
              /\ reqs[r].insertRow.source = "live"
              /\ reqs[r].insertRow.payload[1] = "live"
              /\ reqs[r].insertRow.payload[2] = r
              /\ reqs[r].insertRow.valid_at = reqs[r].insertRow.payload[3]
              /\ reqs[r].pc = "done" =>
                    /\ reqs[r].response = "success"
                    /\ reqs[r].insertOutcome \in {"ok", "failed"}
                    /\ reqs[r].insertOutcome = "ok" =>
                          \E i \in 1..Len(rows) : rows[i] = reqs[r].insertRow

\* A request whose refresh threw and whose insert failed, answered with the
\* payload of its live fetch.
C10_Witness ==
    \E r \in ReqIds :
        /\ reqs[r].pc = "done"
        /\ reqs[r].refreshOutcome = "throws"
        /\ reqs[r].liveOutcome = "ok"
        /\ reqs[r].inserts = 1
        /\ reqs[r].insertOutcome = "failed"
        /\ reqs[r].response = "success"
        /\ reqs[r].allLineStatuses = reqs[r].insertRow.payload

----------------------------------------------------------------------------
(* C11 *)

\* The read of allLineStatuses ended, every fallback having failed: the
\* refresh produced no fresh snapshot and the live fetch threw.
AllFallbacksFailed(r) ==
    /\ reqs[r].pc = "done"
    /\ reqs[r].refreshCalls = 1
    /\ reqs[r].liveOutcome = "throws"

\* The freshness test that let the request answer with a snapshot.
ServedTest(r) == IF Tested(reqs[r].test2) THEN reqs[r].test2 ELSE reqs[r].test1

\* C11: the status read never errors while some result is obtainable: when
\* no snapshot is fresh and the refresh and the live fetch have both failed,
\* the read ends with the payload of the stale latest snapshot it holds, not
\* with an error; and a payload older than maxAge is returned in that case
\* only.
C11_StaleBetterThanAbsent ==
    \A r \in ReqIds :
        /\ (AllFallbacksFailed(r) /\ reqs[r].snapshot # NoSnapshot) =>
              /\ reqs[r].response = "success"
              /\ reqs[r].allLineStatuses = reqs[r].snapshot.payload
        /\ (reqs[r].response = "success" /\ reqs[r].liveOutcome = "none"
              /\ ~FreshBySpec(ServedTest(r))) =>
              AllFallbacksFailed(r)

----------------------------------------------------------------------------
(* C12, C13 *)

\* The distinct non-blank stop ids of an argument.
DistinctStops(ids) == {ids[i] : i \in {j \in 1..Len(ids) : ids[j] \notin BlankIds}}

\* The lists of the fetches that succeeded, concatenated in fetch order.
RECURSIVE SucceededFlat(_)
SucceededFlat(fetches) ==
    IF Len(fetches) = 0 THEN <<>>
    ELSE (IF Head(fetches).state = "ok" THEN Head(fetches).value ELSE <<>>)
            \o SucceededFlat(Tail(fetches))

\* C12: for every list of stop ids, a failing arrivals fetch of one stop
\* never makes getMultipleArrivals fail: the stop contributes no arrivals
\* and the call resolves normally.
C12_BatchNeverFails ==
    (\E i \in 1..Len(batch.fetches) : batch.fetches[i].state = "failed") =>
        /\ batch.pc # "thrown"
        /\ batch.pc = "returned" => batch.result = SucceededFlat(batch.fetches)

\* C13: for an argument with two or more distinct non-blank stop ids,
\* getMultipleArrivals issues exactly one fetch per distinct id, all of them
\* in the step of the call and so in flight together; it returns only once
\* every fetch has settled; its result is the concatenation of the lists of
\* the fetches that succeeded; it never throws.
C13_OneFetchPerStopAllSettled ==
    [][(Cardinality(DistinctStops(batch'.stopPointIds)) >= 2 /\ batch'.pc # "idle") =>
          /\ Len(batch'.fetches) = Cardinality(DistinctStops(batch'.stopPointIds))
          /\ {batch'.uniqueIds[i] : i \in 1..Len(batch'.uniqueIds)} = DistinctStops(batch'.stopPointIds)
          /\ Len(batch'.uniqueIds) = Len(batch'.fetches)
          /\ batch.pc = "idle" =>
                \A i \in 1..Len(batch'.fetches) : batch'.fetches[i].state = "pending"
          /\ batch.pc # "idle" =>
                /\ batch'.uniqueIds = batch.uniqueIds
                /\ Len(batch'.fetches) = Len(batch.fetches)
          /\ batch'.pc # "thrown"
          /\ batch'.thrown = ""
          /\ batch'.pc = "returned" =>
                /\ \A i \in 1..Len(batch.fetches) : batch.fetches[i].state # "pending"
                /\ batch'.fetches = batch.fetches
                /\ batch'.result = SucceededFlat(batch'.fetches)
      ]_vars

\* getMultipleArrivals(["A","B","C"]) where the fetch for B failed and the
\* other two gave arrivals: the result is A's arrivals followed by C's.
C13_Witness ==
    /\ batch.pc = "returned"
    /\ batch.stopPointIds = <<"A", "B", "C">>
    /\ batch.fetches[1].state = "ok" /\ batch.fetches[1].value # <<>>
    /\ batch.fetches[2].state = "failed"
    /\ batch.fetches[3].state = "ok" /\ batch.fetches[3].value # <<>>
    /\ batch.result = batch.fetches[1].value \o batch.fetches[3].value

----------------------------------------------------------------------------
(* C14 *)

\* The per-mode fallback was entered and has ended.
FallbackEnded ==
    /\ lineStatus.error.pattern
    /\ lineStatus.pc \in {"returned", "thrown"}

\* C14: in the per-mode fallback of getLineStatus, when at least one
\* requested mode had a variant request succeed the method returns the
\* aggregated lines of the succeeding modes without raising; the bulk error
\* is thrown only when no mode succeeded.
C14_ReturnsWhenAnyModeSucceeded ==
    FallbackEnded =>
        /\ Len(lineStatus.succeededModes) > 0 =>
              /\ lineStatus.pc = "returned"
              /\ lineStatus.result = lineStatus.aggregated
        /\ lineStatus.pc = "thrown" =>
              /\ Len(lineStatus.succeededModes) = 0
              /\ lineStatus.thrown = lineStatus.error

----------------------------------------------------------------------------
(* C15 *)

----------------------------------------------------------------------------
(* C17 *)

\* C17: a step of fetchApi changes the rotation cursor only when it is a
\* success with a real credential, and then to cursor + 1 modulo the pool
\* size; a failing attempt, a success with the no-credential sentinel and the
\* computation of the candidate list leave the cursor as it was.
C17_CursorFrame ==
    [][/\ \A c \in CallIds :
            /\ (AttemptSucceeds(c) /\ CurrentKey(c) # NoKey) =>
                  roundRobinIndex' = (roundRobinIndex + 1) % Len(apiKeys)
            /\ (AttemptSucceeds(c) /\ CurrentKey(c) = NoKey) =>
                  roundRobinIndex' = roundRobinIndex
            /\ AttemptFails(c) => roundRobinIndex' = roundRobinIndex
            /\ (calls[c].pc = "idle" /\ calls'[c].pc # "idle") =>
                  roundRobinIndex' = roundRobinIndex
       /\ roundRobinIndex' # roundRobinIndex =>
            \E c \in CallIds : AttemptSucceeds(c) /\ CurrentKey(c) # NoKey
      ]_vars

\* A call on a pool of two credentials that returned through the sentinel
\* after both credentials were rate limited, the cursor still at 0.
C17_Witness ==
    \E c \in CallIds :
        /\ Len(apiKeys) = 2
        /\ calls[c].pc = "returned"
        /\ calls[c].alone
        /\ Len(calls[c].attempts) = 3
        /\ LastAttempt(c).key = NoKey
        /\ c = 1
        /\ roundRobinIndex = 0
        /\ calls[2].pc = "idle"

----------------------------------------------------------------------------
(* C16 *)

\* The list the pool is taken from: the configured key list when it has an
\* entry, else the primary and secondary keys that are present.
PoolSource(cfg) ==
    IF cfg.apiKeys # <<>> THEN cfg.apiKeys
    ELSE (IF cfg.primaryApiKey # "" THEN <<cfg.primaryApiKey>> ELSE <<>>)
            \o (IF cfg.secondaryApiKey # "" THEN <<cfg.secondaryApiKey>> ELSE <<>>)

\* Position of the first occurrence of k in list.
FirstAt(list, k) == CHOOSE i \in 1..Len(list) : list[i] = k /\ \A j \in 1..(i - 1) : list[j] # k

\* C16: the pool built at construction holds exactly the keys of the
\* configured list when that list is non-empty, and otherwise of
\* [primary, secondary] without absent or empty keys; each key once, in the
\* order of the first occurrences.
C16_PoolFromConfig ==
    built.constructed =>
        LET src == PoolSource(built.cfg) IN
        /\ {apiKeys[i] : i \in 1..Len(apiKeys)} = {src[i] : i \in 1..Len(src)}
        /\ \A i, j \in 1..Len(apiKeys) : i # j => apiKeys[i] # apiKeys[j]
        /\ \A i, j \in 1..Len(apiKeys) :
              i < j => FirstAt(src, apiKeys[i]) < FirstAt(src, apiKeys[j])

\* A client built from the list [k2, k1, k2] with both legacy keys set: the
\* pool is [k2, k1].
C16_Witness ==
    /\ built.constructed
    /\ built.cfg.apiKeys = <<"k2", "k1", "k2">>
    /\ built.cfg.primaryApiKey = "primary"
    /\ built.cfg.secondaryApiKey = "secondary"
    /\ apiKeys = <<"k2", "k1">>

----------------------------------------------------------------------------
(* C18 *)

\* Call c is the only call of a client with pool [k1, k2], cursor at k1 and
\* no cooldown when it was issued.
FailoverScenario(c) ==
    /\ apiKeys = <<"k1", "k2">>
    /\ calls[c].apiKeys = <<"k1", "k2", NoKey>>
    /\ calls[c].cooling = {}
    /\ \A d \in CallIds : d # c => calls[d].pc = "idle"

\* In this step the attempt of c with k1 is answered 429 with Retry-After: 5.
K1RateLimited(c) ==
    /\ FailoverScenario(c)
    /\ calls[c].index = 0
    /\ AttemptFails(c)
    /\ calls'[c].lastError.status = 429
    /\ calls'[c].lastError.retryAfterRaw = HeaderSeconds(5)

\* In this step the attempt of c with k2, made after that failure, succeeds.
K2Succeeds(c) ==
    /\ FailoverScenario(c)
    /\ calls[c].index = 1
    /\ calls[c].lastError.status = 429
    /\ calls[c].lastError.retryAfterRaw = HeaderSeconds(5)
    /\ AttemptSucceeds(c)

\* What the scenario's two steps do apart from the cursor: k1 is put in
\* cooldown until now + 5000 and k2 is attempted next; the call returns k2's
\* body after exactly two attempts (k1, then k2), and no cooldown changes.
FailoverEffects(c) ==
    /\ K1RateLimited(c) =>
          /\ rateLimitCooldowns'["k1"] = now + 5000
          /\ rateLimitCooldowns'["k2"] = 0
          /\ calls'[c].pc = "inflight"
          /\ calls'[c].attempts = <<[key |-> "k1", res |-> "failed"], [key |-> "k2", res |-> "pending"]>>
    /\ K2Succeeds(c) =>
          /\ calls'[c].pc = "returned"
          /\ calls'[c].result \in Bodies
          /\ calls'[c].attempts = <<[key |-> "k1", res |-> "failed"], [key |-> "k2", res |-> "ok"]>>
          /\ rateLimitCooldowns' = rateLimitCooldowns
          /\ rateLimitCooldowns["k2"] = 0
          /\ rateLimitCooldowns["k1"] > 0

\* C18 as stated: in the scenario the cursor is advanced once and ends past
\* k2's index, at (index of k2 + 1) mod 2 = 0.
C18_CursorPastK2 ==
    [][\A c \in CallIds :
          /\ FailoverEffects(c)
          /\ K1RateLimited(c) => roundRobinIndex' = roundRobinIndex
          /\ K2Succeeds(c) => roundRobinIndex' = ((IndexOf(apiKeys, "k2") - 1) + 1) % 2
      ]_vars

\* C18, amended: in the scenario the cursor is advanced once, by one from
\* where it stood: it ends at 1, the index of k2.
C18_CursorAdvancedByOne ==
    [][\A c \in CallIds :
          /\ FailoverEffects(c)
          /\ K1RateLimited(c) => roundRobinIndex' = roundRobinIndex
          /\ K2Succeeds(c) =>
                /\ roundRobinIndex = 0
                /\ roundRobinIndex' = 1
                /\ roundRobinIndex' = IndexOf(apiKeys, "k2") - 1
      ]_vars

\* The scenario has run: the only call made two attempts, k1 then k2, and
\* returned; k1 cools down for 5000 ms, k2 does not, the cursor is at 1.
C18_Witness ==
    /\ apiKeys = <<"k1", "k2">>
    /\ calls[1].pc = "returned"
    /\ calls[1].apiKeys = <<"k1", "k2", NoKey>>
    /\ calls[1].attempts = <<[key |-> "k1", res |-> "failed"], [key |-> "k2", res |-> "ok"]>>
    /\ calls[2].pc = "idle"
    /\ now = 0
    /\ rateLimitCooldowns["k1"] = 5000
    /\ rateLimitCooldowns["k2"] = 0
    /\ roundRobinIndex = 1

----------------------------------------------------------------------------
(* C19 *)

\* Distance of pool credential k from the cursor, walking forward with
\* wrap-around.
RotationDistance(k) == ((IndexOf(apiKeys, k) - 1) - roundRobinIndex + Len(apiKeys)) % Len(apiKeys)

\* The pool credentials not in cooldown now.
NotCooling == {k \in Range(apiKeys) : rateLimitCooldowns[k] <= now}

\* C19: the candidate list computed at the issue of a call holds the pool
\* credentials not in cooldown, each exactly once, in round-robin order from
\* the cursor with wrap-around, followed by one no-credential sentinel as
\* its last element; it is the sentinel alone when the pool is empty or all
\* of it is cooling down.
C19_CandidateList ==
    [][\A c \in CallIds :
          (calls[c].pc = "idle" /\ calls'[c].pc # "idle") =>
              LET list == calls'[c].apiKeys
                  n == Len(list)
              IN  /\ n = Cardinality(NotCooling) + 1
                  /\ list[n] = NoKey
                  /\ {list[i] : i \in 1..(n - 1)} = NotCooling
                  /\ \A i, j \in 1..(n - 1) :
                        i < j => RotationDistance(list[i]) < RotationDistance(list[j])
                  /\ NotCooling = {} => list = <<NoKey>>
      ]_vars

\* A call issued on the pool [k1, k2, k3] with the cursor at k2 and k3
\* cooling down: its candidates are k2, k1 and the sentinel.
C19_Witness ==
    \E c \in CallIds :
        /\ apiKeys = <<"k1", "k2", "k3">>
        /\ roundRobinIndex = 1
        /\ calls[c].cooling = {"k3"}
        /\ calls[c].apiKeys = <<"k2", "k1", NoKey>>

----------------------------------------------------------------------------
(* C20 *)

\* The attempts of a call that await their answer.
PendingAttempts(call) == {j \in 1..Len(call.attempts) : call.attempts[j].res = "pending"}

\* C20: within one fetchApi call the candidates are attempted one at a time:
\* at most one attempt of the call is in flight, every earlier attempt has
\* failed, and when the attempt on the next candidate is issued after a
\* rate-limit failure the failed credential's cooldown is in the cooldown
\* table.
C20_OneAttemptAtATime ==
    [][\A c \in CallIds :
          /\ Cardinality(PendingAttempts(calls'[c])) <= 1
          /\ PendingAttempts(calls'[c]) \subseteq {Len(calls'[c].attempts)}
          /\ \A j \in 1..(Len(calls'[c].attempts) - 1) : calls'[c].attempts[j].res = "failed"
          /\ \A j \in 1..Len(calls'[c].attempts) : calls'[c].attempts[j].key = calls'[c].apiKeys[j]
          /\ (calls[c].pc = "inflight" /\ Len(calls'[c].attempts) > Len(calls[c].attempts)) =>
                /\ Len(calls'[c].attempts) = Len(calls[c].attempts) + 1
                /\ AttemptFails(c)
                /\ RateLimitBySpec(calls'[c].lastError)
                /\ CurrentKey(c) # NoKey => rateLimitCooldowns'[CurrentKey(c)] > now
      ]_vars

\* A call whose second attempt is in flight, the first credential having
\* been rate limited and put in cooldown.
C20_Witness ==
    \E c \in CallIds :
        /\ calls[c].pc = "inflight"
        /\ Len(calls[c].attempts) = 2
        /\ calls[c].attempts[1].res = "failed"
        /\ calls[c].attempts[1].key # NoKey
        /\ calls[c].attempts[2].res = "pending"
        /\ rateLimitCooldowns[calls[c].attempts[1].key] > now

----------------------------------------------------------------------------
(* C21 *)

\* Credential k was left out of the candidate list of an earlier call
\* because it was cooling down.
WasExcluded(k) ==
    \E d \in CallIds :
        /\ Started(d)
        /\ k \in calls[d].cooling
        /\ k \notin Range(calls[d].apiKeys)

\* C21: a credential that a cooldown excluded from an earlier call is back,
\* at its round-robin position, in the candidate list of every call issued
\* at or after the cooldown-until time now stored for it; no cooldown
\* excludes a credential for good.
C21_EligibleAgainAfterCooldown ==
    [][\A c \in CallIds :
          (calls[c].pc = "idle" /\ calls'[c].pc # "idle") =>
              \A k \in Range(apiKeys) :
                  (WasExcluded(k) /\ now >= rateLimitCooldowns[k]) =>
                      LET list == calls'[c].apiKeys
                          before == {h \in NotCooling : RotationDistance(h) < RotationDistance(k)}
                      IN  /\ Cardinality(before) + 1 <= Len(list)
                          /\ list[Cardinality(before) + 1] = k
      ]_vars

\* The first call left k3 out, which was cooling down until TickMs; the
\* second call, issued at that very time, has it again, after k2.
C21_Witness ==
    /\ apiKeys = <<"k1", "k2", "k3">>
    /\ roundRobinIndex = 1
    /\ calls[1].cooling = {"k3"}
    /\ calls[1].apiKeys = <<"k2", "k1", NoKey>>
    /\ rateLimitCooldowns["k3"] = now
    /\ now > 0
    /\ calls[2].pc = "inflight"
    /\ calls[2].apiKeys = <<"k2", "k3", "k1", NoKey>>

----------------------------------------------------------------------------
(* C22 *)

\* C22: the cooldown table is changed only by a rate-limit failure of an
\* attempt made with a real credential, and then only in that credential's
\* entry; a success, a failure that is no rate limit, a rate-limit failure of
\* the sentinel attempt and the computation of the candidate list leave the
\* table as it was.
C22_CooldownFrame ==
    [][/\ \A k \in AllKeys :
            rateLimitCooldowns'[k] # rateLimitCooldowns[k] =>
                \E c \in CallIds :
                    /\ AttemptFails(c)
                    /\ CurrentKey(c) = k
                    /\ RateLimitBySpec(calls'[c].lastError)
       /\ \A c \in CallIds :
            /\ AttemptSucceeds(c) => rateLimitCooldowns' = rateLimitCooldowns
            /\ (AttemptFails(c) /\ ~RateLimitBySpec(calls'[c].lastError)) =>
                  rateLimitCooldowns' = rateLimitCooldowns
            /\ (AttemptFails(c) /\ CurrentKey(c) = NoKey) =>
                  rateLimitCooldowns' = rateLimitCooldowns
            /\ (calls[c].pc = "idle" /\ calls'[c].pc # "idle") =>
                  rateLimitCooldowns' = rateLimitCooldowns
      ]_vars

\* On a pool of one credential, a call failed on it with an error that is no
\* rate limit and a second call was then issued: the table has no cooldown.
C22_Witness ==
    /\ Len(apiKeys) = 1
    /\ calls[1].pc = "thrown"
    /\ calls[1].attempts = <<[key |-> apiKeys[1], res |-> "failed"]>>
    /\ ~RateLimitBySpec(calls[1].thrown)
    /\ calls[2].pc = "inflight"
    /\ \A k \in AllKeys : rateLimitCooldowns[k] = 0

----------------------------------------------------------------------------
(* C23 *)

\* The calls that have returned having used a real credential.
SucceededWithKey == {c \in CallIds : calls[c].pc = "returned" /\ LastAttempt(c).key # NoKey}

\* C23: whatever the interleaving of the calls in flight on a client, the
\* cursor equals (initial cursor + number of calls that have succeeded with a
\* real credential) mod poolSize, in particular once all calls have
\* completed: no advance is lost and none is made twice.
C23_NoLostAdvance ==
    /\ Len(apiKeys) >= 1 => roundRobinIndex = (0 + Cardinality(SucceededWithKey)) % Len(apiKeys)
    /\ Len(apiKeys) = 0 => (SucceededWithKey = {} /\ roundRobinIndex = 0)

\* Two calls that were in flight together on a pool of two credentials, both
\* issued with the same first candidate, have both succeeded with it: the
\* cursor has advanced twice.
C23_Witness ==
    /\ Len(apiKeys) = 2
    /\ \A c \in CallIds : calls[c].pc = "returned"
    /\ ~calls[2].alone
    /\ calls[1].attempts = <<[key |-> apiKeys[1], res |-> "ok"]>>
    /\ calls[2].attempts = <<[key |-> apiKeys[1], res |-> "ok"]>>
    /\ roundRobinIndex = 0

----------------------------------------------------------------------------
(* C24 *)

\* The domain aliases of the mode names.
Alias(mode) ==
    IF mode = "river-bus" THEN "riverbus"
    ELSE IF mode = "cable-car" THEN "cablecar"
    ELSE mode

\* The variants in the order [lower-cased mode, hyphen-stripped form,
\* space-stripped form, alias], each spelling once.
VariantsInOrder(mode) ==
    LET lower == toLowerCase(mode)
    IN  Dedup(<<lower, StripHyphens(lower), StripSpaces(lower), Alias(lower)>>)

LastRequest(ls) == ls.requests[Len(ls.requests)]

\* C24 (order of the requests): in the fallback of getLineStatus the modes
\* are processed in request order and the variants of a mode are requested in
\* the order [lower-cased mode, hyphen-stripped, space-stripped, alias]
\* without repeats; after a variant succeeds no further variant of that mode
\* is requested.
C24_VariantOrder ==
    [][/\ (lineStatus.pc = "bulk" /\ lineStatus'.pc = "variant") =>
            /\ lineStatus'.mode = 1
            /\ lineStatus'.requests = <<VariantsInOrder(lineStatus.requestedModes[1])[1]>>
       /\ lineStatus.pc = "variant" =>
            LET m == lineStatus.mode
                v == lineStatus.variant
                modes == lineStatus.requestedModes
                nextMode ==
                    /\ m < Len(modes)
                    /\ lineStatus'.mode = m + 1
                    /\ lineStatus'.requests =
                            Append(lineStatus.requests, VariantsInOrder(modes[m + 1])[1])
                nextVariant ==
                    /\ v < Len(VariantsInOrder(modes[m]))
                    /\ lineStatus'.mode = m
                    /\ lineStatus'.requests =
                            Append(lineStatus.requests, VariantsInOrder(modes[m])[v + 1])
            IN  /\ LastRequest(lineStatus) = VariantsInOrder(modes[m])[v]
                /\ \A j \in 1..(v - 1) :
                        VariantsInOrder(modes[m])[j] # VariantsInOrder(modes[m])[v]
                /\ lineStatus'.pc = "variant" =>
                        IF lineStatus'.succeededModes # lineStatus.succeededModes
                        THEN nextMode
                        ELSE nextMode \/ nextVariant
                /\ lineStatus'.pc # "variant" => lineStatus'.requests = lineStatus.requests
      ]_vars

\* C24 (river-bus scenario): for getLineStatus(['river-bus']) with the bulk
\* request rejected, the requests are 'river-bus' then 'riverbus', and when
\* the second succeeds the method returns that mode's lines and raises no
\* error.
C24_RiverBusScenario ==
    (/\ lineStatus.requestedModes = <<"river-bus">>
     /\ FallbackEnded
     /\ Len(lineStatus.requests) = 2
     /\ lineStatus.succeededModes = <<"river-bus">>) =>
        /\ lineStatus.requests = <<"river-bus", "riverbus">>
        /\ lineStatus.pc = "returned"
        /\ lineStatus.result = lineStatus.aggregated
        /\ lineStatus.thrown = NoStatusError

\* The scenario with a second request that returns lines.
C24_ScenarioWithLines ==
    /\ lineStatus.requestedModes = <<"river-bus">>
    /\ lineStatus.requests = <<"river-bus", "riverbus">>
    /\ lineStatus.pc = "returned"
    /\ lineStatus.result = <<Line("riverbus")>>

----------------------------------------------------------------------------
(* C25 *)

\* Every variant of the mode has been requested.
AllVariantsRequested(mode) ==
    \A j \in 1..Len(buildModeVariants(mode)) :
        \E i \in 1..Len(lineStatus.requests) :
            lineStatus.requests[i] = buildModeVariants(mode)[j]

\* A mode is recorded as failed only when every one of its variants has been
\* requested (and none succeeded).
FailedOnlyAfterAllVariants ==
    lineStatus.error.pattern =>
        \A i \in 1..Len(lineStatus.failedModes) :
            AllVariantsRequested(lineStatus.failedModes[i])

\* The validation error of the bulk request is thrown only when every
\* variant of every requested mode has been requested and none succeeded.
SurfacedOnlyAfterAllFailed ==
    (lineStatus.error.pattern /\ lineStatus.pc = "thrown") =>
        /\ Len(lineStatus.succeededModes) = 0
        /\ \A i \in 1..Len(lineStatus.requestedModes) :
                AllVariantsRequested(lineStatus.requestedModes[i])

\* C25: in the fallback of getLineStatus a mode is recorded as failed only
\* when every one of its variants has been requested and has failed, and the
\* validation error of the bulk request is thrown to the caller only when
\* every variant of every requested mode has failed.
C25_FailedOnlyAfterAllVariants ==
    /\ FailedOnlyAfterAllVariants
    /\ SurfacedOnlyAfterAllFailed

----------------------------------------------------------------------------
(* C26 *)

\* The rows of the table before the step are still there, unchanged and in
\* place, after it.
RowsOnlyAppended ==
    /\ Len(rows') >= Len(rows)
    /\ \A i \in 1..Len(rows) : rows'[i] = rows[i]

\* What a request that ended successfully answers with: the payload of a
\* stored snapshot that was fresh when the request read and tested it, or
\* the payload of the request's own live fetch.
ServedFreshOrOwnLive(r) ==
    reqs[r].response = "success" =>
        \/ /\ reqs[r].liveOutcome = "none"
           /\ Tested(ServedTest(r))
           /\ FreshBySpec(ServedTest(r))
           /\ \E i \in 1..Len(rows) : rows[i] = ServedTest(r).snap
           /\ reqs[r].allLineStatuses = ServedTest(r).snap.payload
        \/ /\ reqs[r].liveOutcome = "ok"
           /\ reqs[r].allLineStatuses[1] = "live"
           /\ reqs[r].allLineStatuses[2] = r

\* C26: under any interleaving of /api/status requests and scheduled
\* refreshes no step updates or deletes a snapshot row (rows are only
\* appended), and every request that completes successfully returns the
\* payload of a snapshot that passed the freshness test when the request
\* read it, or the payload of its own live fetch.
C26_RacingRefreshesHarmless ==
    /\ [](\A r \in ReqIds : ServedFreshOrOwnLive(r))
    /\ [][RowsOnlyAppended]_vars

\* Two requests raced with a scheduled refresh: the first answered with its
\* own live payload and stored it, the second, whose first read was before
\* that insert, answered with the first one's row after its own refresh.
C26_Witness ==
    /\ cronRuns = 1
    /\ \A r \in ReqIds : reqs[r].pc = "done" /\ reqs[r].response = "success"
    /\ reqs[1].liveOutcome = "ok"
    /\ reqs[1].insertOutcome = "ok"
    /\ reqs[2].liveOutcome = "none"
    /\ reqs[2].refreshCalls = 1
    /\ reqs[2].test2.snap = reqs[1].insertRow
    /\ reqs[2].allLineStatuses = reqs[1].allLineStatuses
    /\ Len(rows) >= 2

----------------------------------------------------------------------------
(* C27 *)

\* The same character, or the two cases of one letter.
SameLetter(a, b) ==
    \/ a = b
    \/ \E n \in 1..Len(UpperCase) :
          \/ (a = UpperCase[n] /\ b = LowerCase[n])
          \/ (a = LowerCase[n] /\ b = UpperCase[n])

\* The text contains the phrase, whatever the case of its letters.
ContainsIgnoringCase(text, phrase) ==
    \E offset \in 0..(Len(text) - Len(phrase)) :
        \A j \in 1..Len(phrase) : SameLetter(text[offset + j], phrase[j])

\* 'rate limit', 'too many requests', 'exceeded your quota',
\* 'quota exceeded', 'over rate limit'
StatedPhrases ==
    {<<"r", "a", "t", "e", " ", "l", "i", "m", "i", "t">>,
     <<"t", "o", "o", " ", "m", "a", "n", "y", " ", "r", "e", "q", "u", "e", "s", "t", "s">>,
     <<"e", "x", "c", "e", "e", "d", "e", "d", " ", "y", "o", "u", "r", " ", "q", "u", "o", "t", "a">>,
     <<"q", "u", "o", "t", "a", " ", "e", "x", "c", "e", "e", "d", "e", "d">>,
     <<"o", "v", "e", "r", " ", "r", "a", "t", "e", " ", "l", "i", "m", "i", "t">>}

\* The classification as stated: status 429, or a message with one of the
\* five phrases.
StatedRateLimit(error) ==
    \/ error.status = 429
    \/ \E phrase \in StatedPhrases : ContainsIgnoringCase(Text(error.message), phrase)

\* C27: the flag isRateLimitResponse sets on an error built from an HTTP
\* response, and the verdict of isRateLimitError in the executor, are true
\* if and only if the status is 429 or the message contains, in any case,
\* one of the five rate-limit phrases; on every error built from an HTTP
\* response the two agree.
C27_ClassificationIff ==
    /\ (failure.pc \in {"thrown", "caught"} /\ failure.error.kind = "http") =>
            (failure.error.isRateLimit <=> StatedRateLimit(failure.error))
    /\ failure.pc = "caught" =>
            /\ failure.limited <=> StatedRateLimit(failure.error)
            /\ failure.error.kind = "http" => failure.limited = failure.error.isRateLimit

\* A 500 whose message has a phrase in upper case, classified as rate limit
\* by both predicates.
C27_Witness ==
    /\ failure.pc = "caught"
    /\ failure.error.kind = "http"
    /\ failure.error.status = 500
    /\ failure.error.message = "You have EXCEEDED YOUR QUOTA"
    /\ failure.error.isRateLimit
    /\ failure.limited

----------------------------------------------------------------------------
(* C28 *)

\* In this step call c issues a request: its first, on entry, or the next
\* candidate's after a failure.
IssuesAttempt(c) == Len(calls'[c].attempts) > Len(calls[c].attempts)

IssuedKey(c) == calls'[c].attempts[Len(calls'[c].attempts)].key

\* C28: no request is issued with a credential whose cooldown-until is in
\* the future at the moment the request is issued, also when several
\* fetchApi calls are in flight on the client at once.
C28_NoAttemptWhileCooling ==
    [][\A c \in CallIds :
            (IssuesAttempt(c) /\ IssuedKey(c) # NoKey) =>
                rateLimitCooldowns'[IssuedKey(c)] <= now'
      ]_vars


\* No call has been issued while another was in flight.
NoOverlap == \A c \in CallIds : calls[c].pc # "idle" => calls[c].alone

\* Without overlapping calls no request is issued with a cooling credential.
NoAttemptWhileCoolingWithoutOverlap ==
    [][NoOverlap' =>
         \A c \in CallIds :
            (IssuesAttempt(c) /\ IssuedKey(c) # NoKey) =>
                rateLimitCooldowns'[IssuedKey(c)] <= now'
      ]_vars

----------------------------------------------------------------------------
(* C29 *)

\* C29 as stated: no step moves the cooldown-until of a credential to an
\* earlier time.
C29_CooldownNeverEarlier ==
    [][\A k \in AllKeys : rateLimitCooldowns'[k] >= rateLimitCooldowns[k]]_vars

\* C29, amended: every write to the cooldown table stores a time later than
\* the moment of the write, and as long as no call has been issued while
\* another was in flight no write moves an entry to an earlier time.
C29_NeverEarlierWithoutOverlap ==
    [][\A k \in AllKeys :
            /\ rateLimitCooldowns'[k] # rateLimitCooldowns[k] => rateLimitCooldowns'[k] > now'
            /\ NoOverlap' => rateLimitCooldowns'[k] >= rateLimitCooldowns[k]
      ]_vars

\* Calls that did not overlap: the first one was rate limited on the first
\* credential, and after that cooldown had expired the second one was rate
\* limited on the same credential, which moved the entry to a later time.
C29_Witness ==
    /\ Len(apiKeys) >= 1
    /\ NoOverlap
    /\ calls[1].pc # "idle"
    /\ calls[2].pc # "idle"
    /\ calls[1].attempts[1] = [key |-> apiKeys[1], res |-> "failed"]
    /\ calls[2].attempts[1] = [key |-> apiKeys[1], res |-> "failed"]
    /\ Len(calls[1].attempts) >= 2
    /\ now = TickMs
    /\ rateLimitCooldowns[apiKeys[1]] = TickMs + 5000

----------------------------------------------------------------------------
(* C30 *)

\* The requests of a call: no credential twice, the sentinel at most once
\* and with no request after it, pool credentials otherwise, at most
\* poolSize + 1 in all.
AttemptsBounded(c) ==
    LET log == calls[c].attempts
    IN  /\ \A i, j \in 1..Len(log) : i # j => log[i].key # log[j].key
        /\ \A i \in 1..Len(log) :
              /\ log[i].key = NoKey => i = Len(log)
              /\ log[i].key # NoKey => log[i].key \in Range(apiKeys)
        /\ Len(log) <= Len(apiKeys) + 1

\* C30: a fetchApi call attempts each pool credential at most once and the
\* sentinel at most once and only as its final attempt, so it makes at most
\* poolSize + 1 attempts; and when every network request eventually returns,
\* a call that was issued eventually ends, with a body returned or an error
\* thrown.
C30_BoundedAttemptsAndTermination ==
    /\ [](\A c \in CallIds : AttemptsBounded(c))
    /\ \A c \in CallIds : InFlight(c) ~> Finished(c)

\* A call on a pool of two credentials that made three attempts: both
\* credentials were rate limited and the request without credential
\* succeeded.
C30_Witness ==
    \E c \in CallIds :
        /\ Len(apiKeys) = 2
        /\ calls[c].pc = "returned"
        /\ calls[c].attempts = <<[key |-> apiKeys[1], res |-> "failed"],
                                 [key |-> apiKeys[2], res |-> "failed"],
                                 [key |-> NoKey, res |-> "ok"]>>

====
